---- MODULE Spec2Model ----
(***************************************************************************)
(* Model of the OAuth code-for-token exchange (api/oauth/token.js,         *)
(* api/oauth/store-token.js) and of the API-key user registry              *)
(* (lib/auth.js) of remote-slack-server, over the key-value store both     *)
(* are written against.  Every await of a store call is one step of the    *)
(* request that makes it; the checks before the first await belong to the  *)
(* step that makes the first call.                                         *)
(***************************************************************************)
EXTENDS Integers, Sequences, FiniteSets, TLC

\* ------------------------------------------------------------------ bounds
MaxCodes == 1
MaxTime == 600
TickSeconds == 300
NXProcs == 2
MaxStores == 2
MaxUsers == 1
MaxKeys == 3
MaxRequests == 2
MaxPending == 1
MaxDays == 1
MaxDecr == 2

\* ------------------------------------------------------- program constants
CodeTtl == 600
ExpiresIn == 31536000
MinTokenLen == 50
KeyHexLen == 64

VARIABLES
  now,        \* wall clock, seconds
  codeStore,  \* kv namespace oauth_code:<code>
  xproc,      \* the token-exchange requests between their kv.get and kv.del
  out,        \* the response sent last, by either handler
  lastStore,  \* history: per code, the last store-token write and the one before
  redeemed,   \* history: per code, a success response since the last write
  storeCount, \* history: per code, the number of store-token writes
  okCount,    \* history: per code, the number of success responses
  seen,       \* history: per case of the code, the responses exchange gave
  users,      \* kv namespace user:<id>
  apikeys,    \* kv namespace apikey:<apiKey>
  stats,      \* kv counters stats:total_users, stats:active_users
  nextKey,    \* the API keys generated so far (each generated key is new)
  today,      \* wall clock, days
  rproc,      \* per caller: its registry call between awaits, or as it ended
  pending,    \* usage writes issued by getUserByApiKey and not yet landed
  retired,    \* history: keys whose index entry a completed call removed
  tokens,     \* kv namespace token:<slackToken> (the direct-token variant)
  sout,       \* the response a dispatcher sent last
  tested,     \* history: the tokens the platform's auth.test has accepted
  issued,     \* history: the codes /oauth/authorize has issued
  aout,       \* the response /oauth/authorize sent last
  tout        \* the response a tools/call was given last

oauthVars == <<now, codeStore, xproc, out, lastStore, redeemed, storeCount,
               okCount, seen>>

regVars == <<users, apikeys, stats, nextKey, today, rproc, pending, retired>>

surfVars == <<tokens, sout, tested, issued, aout, tout>>

vars == <<oauthVars, regVars, surfVars>>

\* ------------------------------------------------------------------ values
Codes == 1..MaxCodes
NoCode == 0
XProcs == 1..NXProcs

\* A string the handlers receive as a token, by what the checks read of it:
\* its prefix and its length; n tells two tokens of one shape apart.
Token(pfx, len, n) == [pfx |-> pfx, len |-> len, n |-> n]
NoToken == Token("", 0, 0)
TokenInputs ==
  { Token("xoxp-", 56, 1), Token("xoxp-", 20, 2), Token("xoxb-", 56, 3),
    NoToken }

Truthy(t) == t.len > 0
StartsWith(t, pfx) == t.pfx = pfx

Methods == {"POST", "GET", "OPTIONS"}
GrantTypes == {"authorization_code", "refresh_token"}
WebClientId == "slack-mcp-claude-web"
ClientIds == {WebClientId, ""}
Variants == {1, 2}

\* ------------------------------------------------------------ the kv store
NoEntry == [value |-> NoToken, expiresAt |-> 0]

\* A setex that does not replace a value already held.
KvSetexKeepValue(store, key, seconds, value) ==
  [store EXCEPT ![key] =
     [value |-> IF store[key] # NoEntry THEN store[key].value ELSE value,
      expiresAt |-> now + seconds]]

\* kv.setex(key, seconds, value): the value replaces any prior one and the
\* key's time to live starts again.
KvSetexKeepTtl(store, key, seconds, value) ==
  [store EXCEPT ![key] =
     [value |-> value,
      expiresAt |-> IF store[key] # NoEntry THEN store[key].expiresAt
                    ELSE now + seconds]]

KvSetex(store, key, seconds, value) ==
  [store EXCEPT ![key] = [value |-> value, expiresAt |-> now + seconds]]

\* kv.get(key): null (NoToken) for a key never set, deleted or expired.
KvGet(store, key) ==
  IF store[key] # NoEntry /\ now < store[key].expiresAt
  THEN store[key].value
  ELSE NoToken

KvDelMissed(store, key) == store

KvDel(store, key) == [store EXCEPT ![key] = NoEntry]

\* --------------------------------------------------------------- responses
Json(status, error, desc) ==
  [status |-> status, error |-> error, error_description |-> desc,
   success |-> FALSE, access_token |-> NoToken, token_type |-> "",
   expires_in |-> 0, refresh_token |-> FALSE, scope |-> ""]

NoResp == Json(0, "", "")

TokenResponseOfCode(v, token) ==
  [Json(200, "", "") EXCEPT !.access_token = Token("code", 4, 0),
     !.token_type = "bearer", !.expires_in = ExpiresIn,
     !.refresh_token = (v = 2), !.scope = "slack:read slack:write"]

TokenResponse(v, token) ==
  [Json(200, "", "") EXCEPT !.access_token = token, !.token_type = "bearer",
     !.expires_in = ExpiresIn, !.refresh_token = (v = 2),
     !.scope = "slack:read slack:write"]

InvalidGrant == Json(400, "invalid_grant", "Invalid or expired authorization code")

\* The checks with the presence of the code tested before the grant type.
ValidateCodeFirst(req) ==
  IF req.v = 2 /\ req.method = "OPTIONS" THEN Json(200, "", "")
  ELSE IF req.method # "POST" THEN
    (IF req.v = 1 THEN Json(405, "Method not allowed", "")
     ELSE Json(405, "invalid_request", "Method not allowed"))
  ELSE IF req.code = NoCode THEN
    Json(400, "invalid_request", "authorization_code is required")
  ELSE IF req.grant_type # "authorization_code" THEN
    Json(400, "unsupported_grant_type",
         IF req.v = 1 THEN "Only authorization_code grant type is supported"
         ELSE "Only authorization_code is supported")
  ELSE IF req.v = 2 /\ req.client_id # WebClientId THEN
    Json(400, "invalid_client", "Invalid client_id")
  ELSE NoResp

\* The checks token.js makes before it reads the store; NoResp when all pass.
\* Variant 1 is the first handler of the file, variant 2 the Claude Web one.
Validate(req) ==
  IF req.v = 2 /\ req.method = "OPTIONS" THEN Json(200, "", "")
  ELSE IF req.method # "POST" THEN
    (IF req.v = 1 THEN Json(405, "Method not allowed", "")
     ELSE Json(405, "invalid_request", "Method not allowed"))
  ELSE IF req.grant_type # "authorization_code" THEN
    Json(400, "unsupported_grant_type",
         IF req.v = 1 THEN "Only authorization_code grant type is supported"
         ELSE "Only authorization_code is supported")
  ELSE IF req.code = NoCode THEN
    Json(400, "invalid_request", "authorization_code is required")
  ELSE IF req.v = 2 /\ req.client_id # WebClientId THEN
    Json(400, "invalid_client", "Invalid client_id")
  ELSE NoResp

Requests ==
  [v : Variants, method : Methods, grant_type : GrantTypes,
   code : Codes \cup {NoCode}, client_id : ClientIds]

\* What is known of a code when a request reads it (history, not program state).
CaseOf(c) ==
  IF storeCount[c] = 0 THEN "never"
  ELSE IF redeemed[c] THEN "redeemed"
  ELSE IF now >= lastStore[c].at + CodeTtl THEN "expired"
  ELSE "live"

NoPre == [case |-> "", token |-> NoToken, prev |-> NoToken,
          issued |-> FALSE]
PreOf(c) == [case |-> CaseOf(c), token |-> lastStore[c].token,
             prev |-> lastStore[c].prev, issued |-> c \in issued]

\* A response of /oauth/authorize: the handler variant, the request (its
\* method and whether client_id and redirect_uri are present), the status
\* and the code carried by the redirect.
Authorized(v, req, status, code) ==
  [v |-> v, method |-> req.method, client |-> req.client,
   redirect |-> req.redirect, status |-> status, code |-> code]
AuthorizeRequests ==
  [method : {"GET", "POST"}, client : BOOLEAN, redirect : BOOLEAN]
NoAuthorized ==
  Authorized(0, [method |-> "", client |-> FALSE, redirect |-> FALSE], 0,
             NoCode)

IdleX == [pc |-> "idle", v |-> 0, code |-> NoCode, got |-> NoToken,
          pre |-> NoPre]

\* A response as sent: the handler, the history of the request's code when the
\* handler read it, and the body.
Sent(h, pre, resp) == [h |-> h, pre |-> pre, resp |-> resp]
NoneSent == Sent("", NoPre, NoResp)

\* ------------------------------------------------- lib/auth.js: the values
UserIds == 1..MaxUsers
NoUserId == 0
KeySerials == 1..MaxKeys
RProcs == {1, 2}

\* An API key string, by what isValidApiKey reads of it: its prefix and the
\* number of hex digits after it; n tells two keys of one shape apart.
ApiKey(pfx, hexlen, n) == [pfx |-> pfx, hexlen |-> hexlen, n |-> n]
NoKey == ApiKey("", 0, 0)

\* generateApiKey: 'smcp_' and 32 random bytes in hex; the n-th key generated.
GenerateApiKey(n) == ApiKey("smcp_", KeyHexLen, n)

IsValidApiKey(k) == k.pfx = "smcp_" /\ k.hexlen = KeyHexLen

\* The shape check without the length.
IsValidSlackTokenPrefix(t) == StartsWith(t, "xoxp-")

IsValidSlackToken(t) == StartsWith(t, "xoxp-") /\ t.len > MinTokenLen

\* hashToken: sha256, taken to be free of collisions.
HashToken(t) == [sha256 |-> t]

LookupKeys ==
  {GenerateApiKey(n) : n \in KeySerials}
    \cup {ApiKey("smcp_", KeyHexLen - 1, 1), NoKey}

RegTokens == {Token("xoxp-", 56, 1), Token("xoxp-", 20, 2), NoToken}

NoUser == [id |-> NoUserId, apiKey |-> NoKey, slackToken |-> NoToken,
           slackTokenHash |-> HashToken(NoToken), lastUsed |-> 0,
           active |-> FALSE, totalRequests |-> 0]

\* userData as createUser builds it.
NewUser(id, key, token) ==
  [id |-> id, apiKey |-> key, slackToken |-> token,
   slackTokenHash |-> HashToken(token), lastUsed |-> today, active |-> TRUE,
   totalRequests |-> 0]

\* userData as the createUser of the direct-token variant builds it: without
\* an API key and without a hash of the token.
NoHash == HashToken(NoToken)
NewUserCfg(id, token) ==
  [NewUser(id, NoKey, token) EXCEPT !.slackTokenHash = NoHash]

\* The tokens updateUserToken is called with.
UpdateTokens == {Token("xoxp-", 56, 1), Token("xoxp-", 56, 4),
                 Token("xoxp-", 20, 2)}

\* kv.set / kv.get / kv.del on the two registry namespaces.  The index holds
\* an entry only under a key that was generated.
KvSetUser(id, ud) == [users EXCEPT ![id] = ud]
KvGetUser(id) == IF id \in UserIds THEN users[id] ELSE NoUser
KvSetIndex(k, id) == [apikeys EXCEPT ![k.n] = id]
KvDelIndex(k) == [n \in KeySerials |-> IF GenerateApiKey(n) = k THEN NoUserId
                                        ELSE apikeys[n]]
\* A lookup of the key among the records instead of in the index.
KvGetIndexByRecord(k) ==
  IF \E i \in UserIds : users[i] # NoUser /\ users[i].apiKey = k
  THEN CHOOSE i \in UserIds : users[i] # NoUser /\ users[i].apiKey = k
  ELSE NoUserId

KvGetIndex(k) ==
  IF k.n \in KeySerials /\ GenerateApiKey(k.n) = k THEN apikeys[k.n]
  ELSE NoUserId

\* kv.scan(cursor, {match: 'user:*', count}): the store walks its keys from
\* the cursor, count of them at most, and returns those that match with the
\* cursor to go on from, 0 once it has walked them all.  ahead and behind
\* are the numbers of keys of the store the walk meets before and after the
\* user:* keys, which it meets in the order of their ids.  ScanCount is the
\* count that cleanupInactiveUsers asks for.
ScanCount == 1000
ScanAheads == {0, ScanCount}
ScanBehinds == {0, 1}
ScanRecords == {i \in UserIds : users[i] # NoUser}
ScanPosition(i, ahead) == ahead + Cardinality({j \in ScanRecords : j <= i})
KvScan(cursor, count, ahead, behind) ==
  [keys |-> {i \in ScanRecords :
               /\ cursor < ScanPosition(i, ahead)
               /\ ScanPosition(i, ahead) <= cursor + count},
   cursor |-> IF cursor + count >= ahead + Cardinality(ScanRecords) + behind
              THEN 0
              ELSE cursor + count]

\* listUsers: the limits and cursors it is called with (DefaultListLimit when
\* no limit is given).
DefaultListLimit == 100
ListLimits == {1, DefaultListLimit}
ListCursors == {0, 1}

\* The entry with the hash of the token left in.
SanitizeKeepsHash(ud) ==
  [id |-> ud.id, lastUsed |-> ud.lastUsed, active |-> ud.active,
   totalRequests |-> ud.totalRequests, slackTokenHash |-> ud.slackTokenHash]

\* listUsers: the entry pushed for a record, built from the fields it names.
Sanitize(ud) ==
  [id |-> ud.id, lastUsed |-> ud.lastUsed, active |-> ud.active,
   totalRequests |-> ud.totalRequests]

\* generateUserId: an id no record is stored under.
FreeIds == {i \in UserIds : users[i] = NoUser}
NextId == CHOOSE i \in FreeIds : \A j \in FreeIds : i <= j

\* A record of which only the Slack token is known.
TokenOnly(t) == [NoUser EXCEPT !.slackToken = t]

\* kv.set / kv.get on the token:<slackToken> namespace.
KvSetToken(t, id) == [tokens EXCEPT ![t] = id]
KvGetToken(t) == IF t \in RegTokens THEN tokens[t] ELSE NoUserId

\* The request dispatchers: api/index.js (API key), the direct-token variant,
\* the variant that falls back to the SLACK_TOKEN environment variable, and
\* the express server.
Dispatchers == {"index", "direct", "env", "express"}
McpMethods == {"initialize", "tools/list", "tools/call", "resources/list"}

\* The credential of a request: none, an API key or a Slack token.
Cred(kind, key, token) == [kind |-> kind, key |-> key, token |-> token]
NoCred == Cred("none", NoKey, NoToken)
Creds ==
  {NoCred}
    \cup {Cred("key", GenerateApiKey(n), NoToken) : n \in {1, MaxKeys}}
    \cup {Cred("token", NoKey, t) : t \in RegTokens \ {NoToken}}
EnvTokens == {NoToken, Token("xoxp-", 56, 1)}

\* A dispatcher's response: the request it answers (of the credential, its
\* kind), whether the credential
\* resolved to an active registered user and whether the request was served
\* as authenticated, the HTTP status and the calls made to the platform.
Answer(d, method, cred, resolved, authed, status, calls) ==
  [d |-> d, method |-> method, cred |-> cred.kind, resolved |-> resolved,
   authed |-> authed, status |-> status, calls |-> calls]
NoSout == Answer("", "", NoCred, FALSE, FALSE, 0, 0)

\* A caller of the registry: the call it is in (pc names the await it is
\* before), or the call it made last and what that returned (ok: it neither
\* threw nor returned false or null; newKey: the key generated; n: a count;
\* why: the branch a lookup returned from; prev: the count the caller's
\* previous lookup of the same key returned; held: the keys that
\* authenticated as the user when the call read the record; status, calls:
\* the HTTP status of the request the call served and the number of calls to
\* the platform the request made; before: the records as they were when
\* cleanupInactiveUsers scanned; users, cursor, hasMore: what listUsers
\* returns).
IdleR == [pc |-> "idle", op |-> "", id |-> NoUserId, key |-> NoKey,
          ud |-> NoUser, old |-> NoKey, wasActive |-> FALSE, list |-> {},
          cutoff |-> 0, n |-> 0, cont |-> "", ok |-> FALSE, threw |-> FALSE,
          newKey |-> NoKey, why |-> "", prev |-> 0, active |-> FALSE,
          held |-> {}, status |-> 0, calls |-> 0,
          before |-> [i \in UserIds |-> NoUser], users |-> <<>>,
          cursor |-> 0, hasMore |-> FALSE]

Ret(op, id, key) == [IdleR EXCEPT !.op = op, !.id = id, !.key = key]

\* ------------------------------------------------- tools/call: the values
\* Text as the tools read it: a sequence of characters.
IsWhitespace(ch) == ch = " "
LowerChar(ch) ==
  IF ch = "A" THEN "a" ELSE IF ch = "B" THEN "b" ELSE IF ch = "C" THEN "c"
  ELSE ch

\* String.prototype.toLowerCase, includes and split(/\s+/).
ToLowerCase(str) == [i \in 1..Len(str) |-> LowerChar(str[i])]

Includes(str, part) ==
  \E i \in 0..(Len(str) - Len(part)) : SubSeq(str, i + 1, i + Len(part)) = part

RECURSIVE SplitWhitespace(_)
SplitWhitespace(str) ==
  IF str = <<>> THEN << <<>> >>
  ELSE LET rest == SplitWhitespace(Tail(str)) IN
       IF IsWhitespace(Head(str))
       THEN IF Len(str) > 1 /\ IsWhitespace(str[2]) THEN rest
            ELSE << <<>> >> \o rest
       ELSE << <<Head(str)>> \o Head(rest) >> \o Tail(rest)

\* fallbackSearch: the terms a message is matched against.
MinTermLen == 2
SearchTerms(query) ==
  LET Long(term) == Len(term) > MinTermLen IN
  SelectSeq(SplitWhitespace(ToLowerCase(query)), Long)

\* The queries and the message texts drawn; the empty text is a message
\* without text.
Queries ==
  { <<"A", "B", "C">>, <<"a", "b">>, <<"a", "b", " ", " ", "b", "c", "a">>,
    <<" ", "a", "b", "c", " ">>, <<>> }
Texts ==
  { <<"a", "b", "c">>, <<"c", "A", "B", "C", "a">>, <<"a", "b">>,
    <<"B", "c", "A", " ", "c">>, <<>> }

\* The arguments of slack_search_messages: a query (or none) and a limit (or
\* none, and then DefaultLimit).
DefaultLimit == 20
MaxLimit == 3
Limit(given, n) == [given |-> given, n |-> n]
Limits == {Limit(FALSE, 0), Limit(TRUE, 0), Limit(TRUE, 1),
           Limit(TRUE, MaxLimit)}
LimitOf(l) == IF l.given THEN l.n ELSE DefaultLimit

\* A channel of conversations.list: whether the user is a member, and what
\* conversations.history answers for it (it fails, or the texts of its
\* messages).
Channel(member, fails, history) ==
  [is_member |-> member, fails |-> fails, history |-> history]
Histories ==
  << Channel(TRUE, FALSE, << <<"a", "b", "c">>, <<"c", "A", "B", "C", "a">> >>),
     Channel(TRUE, FALSE, << <<"a", "b">> >>),
     Channel(TRUE, TRUE, <<>>),
     Channel(TRUE, FALSE, << <<>>, <<"B", "c", "A", " ", "c">> >>) >>

\* fallbackSearch reads the first FallbackChannels channels listed.
FallbackChannels == 10
ListingLens == {0, 2, FallbackChannels + 1}
MemberPatterns == {"all", "none", "last"}
Listing(len, members, shift) ==
  [i \in 1..len |->
     [Histories[((i + shift) % Len(Histories)) + 1] EXCEPT
        !.is_member = (members = "all" \/ (members = "last" /\ i = len))]]
Shifts == {0, 2}
Listings ==
  {Listing(len, m, sh) :
     len \in ListingLens, m \in MemberPatterns, sh \in Shifts}

\* What the platform answers to a call: success, a non-success HTTP status,
\* or a reply with ok = false and an error code.
Outcomes == {"ok", "http", "not_allowed_token_type", "invalid_auth"}
Failed(outcome) == outcome # "ok"

\* makeRequest: the message of the error it throws.
ErrorMessage(outcome) ==
  IF outcome = "http" THEN <<"HTTP ", "503">>
  ELSE <<"Slack API error: ", outcome>>
MessageIncludes(msg, code) == \E i \in 1..Len(msg) : msg[i] = code

\* The tools: the five of the HTTP handlers, of which the express server
\* knows two under the same name, and a name none knows.
HttpDispatchers == {"index", "direct", "env"}
ToolNames == {"slack_search_messages", "slack_get_users",
              "slack_get_channels", "slack_no_such_tool"}
KnownTool(d, tool) ==
  IF d = "express"
  THEN tool \in {"slack_search_messages", "slack_get_users"}
  ELSE tool \in {"slack_search_messages", "slack_get_users",
                 "slack_get_channels"}

\* A tools/call request, and the platform as the request meets it: the
\* outcome of auth.test, of the tool's call, of conversations.list, and the
\* channels listed.
ToolRequest(tool, hasQuery, query, limit) ==
  [tool |-> tool, hasQuery |-> hasQuery, query |-> query, limit |-> limit]
Platform(auth, call, list, listing) ==
  [auth |-> auth, call |-> call, list |-> list, listing |-> listing]
ToolRequests ==
  {ToolRequest(t, FALSE, <<>>, Limit(FALSE, 0)) :
     t \in ToolNames \ {"slack_search_messages"}}
    \cup {ToolRequest("slack_search_messages", TRUE, q, l) :
            q \in Queries, l \in Limits}
    \cup {ToolRequest("slack_search_messages", FALSE, <<>>, Limit(FALSE, 0))}
Platforms(req) ==
  {Platform("ok", c, "ok", <<>>) : c \in Outcomes}
    \cup IF req.tool = "slack_search_messages"
         THEN {Platform("ok", "not_allowed_token_type", "ok", l) :
                 l \in Listings}
                \cup {Platform("ok", "not_allowed_token_type", "http", <<>>)}
         ELSE {}

\* The response to a tools/call: the request and the platform it met, the
\* HTTP status, the envelope (isError; fallback: built by fallbackSearch;
\* results: the messages it holds) and whether a call to the platform failed.
ToolResponse(d, req, pf, status, isError, fallback, results, failed) ==
  [d |-> d, req |-> req, pf |-> pf, status |-> status, isError |-> isError,
   fallback |-> fallback, results |-> results, failed |-> failed]
NoTout ==
  ToolResponse("", ToolRequest("", FALSE, <<>>, Limit(FALSE, 0)),
               Platform("", "", "", <<>>), 0, FALSE, FALSE, <<>>, FALSE)

\* The envelope of the catch clause of handleToolCall / callTool.
ErrorEnvelope(d, req, pf, failed) ==
  ToolResponse(d, req, pf, 200, TRUE, FALSE, <<>>, failed)
Envelope(d, req, pf, fallback, results, failed) ==
  ToolResponse(d, req, pf, 200, FALSE, fallback, results, failed)

\* fallbackSearch: the messages of one channel's history that contain a term.
MatchingMessages(ch, i, terms) ==
  LET Hit(text) ==
        \E j \in 1..Len(terms) : Includes(ToLowerCase(text), terms[j])
      hits == SelectSeq(ch.history, Hit) IN
  [j \in 1..Len(hits) |-> [channel |-> i, text |-> hits[j]]]

\* fallbackSearch: the loop over the channels listed, from channel i on.
RECURSIVE FallbackLoop(_, _, _, _, _)
FallbackLoop(listing, i, terms, limit, all) ==
  IF i > Len(listing) \/ i > FallbackChannels THEN all
  ELSE IF ~listing[i].is_member \/ listing[i].fails
  THEN FallbackLoop(listing, i + 1, terms, limit, all)
  ELSE LET more == all \o MatchingMessages(listing[i], i, terms) IN
       IF Len(more) >= limit THEN more
       ELSE FallbackLoop(listing, i + 1, terms, limit, more)

\* fallbackSearch: conversations.list, the loop, and the slice to the limit.
FallbackSearch(d, req, pf) ==
  IF Failed(pf.list) \/ ~req.hasQuery THEN ErrorEnvelope(d, req, pf, TRUE)
  ELSE LET limit == LimitOf(req.limit)
           all == FallbackLoop(pf.listing, 1, SearchTerms(req.query), limit,
                               <<>>)
           n == IF Len(all) < limit THEN Len(all) ELSE limit IN
       Envelope(d, req, pf, TRUE, SubSeq(all, 1, n), TRUE)

\* searchMessages: search.messages, and the fallback when the error names
\* the token type.
SearchMessages(d, req, pf) ==
  IF ~Failed(pf.call) THEN Envelope(d, req, pf, FALSE, <<>>, FALSE)
  ELSE IF MessageIncludes(ErrorMessage(pf.call), "not_allowed_token_type")
  THEN FallbackSearch(d, req, pf)
  ELSE ErrorEnvelope(d, req, pf, TRUE)

\* handleToolCall of the HTTP handlers: the switch on the tool's name inside
\* the try, whose catch renders what is thrown as an envelope.
HandleToolCallResponse(d, req, pf) ==
  IF ~KnownTool(d, req.tool)
  THEN ToolResponse(d, req, pf, 400, FALSE, FALSE, <<>>, FALSE)
  ELSE IF req.tool = "slack_search_messages" THEN SearchMessages(d, req, pf)
  ELSE IF Failed(pf.call) THEN ErrorEnvelope(d, req, pf, TRUE)
  ELSE Envelope(d, req, pf, FALSE, <<>>, FALSE)

\* callTool of the express server: an unknown name is thrown and caught as
\* any error is; its search has no fallback.
CallToolResponse(req, pf) ==
  IF ~KnownTool("express", req.tool)
  THEN ErrorEnvelope("express", req, pf, FALSE)
  ELSE IF Failed(pf.call) THEN ErrorEnvelope("express", req, pf, TRUE)
  ELSE Envelope("express", req, pf, FALSE, <<>>, FALSE)

\* -------------------------------------------------------------------- Init
Init ==
  /\ now = 0
  /\ codeStore = [c \in Codes |-> NoEntry]
  /\ xproc = [p \in XProcs |-> IdleX]
  /\ out = NoneSent
  /\ lastStore = [c \in Codes |->
                    [token |-> NoToken, at |-> 0, prev |-> NoToken]]
  /\ redeemed = [c \in Codes |-> FALSE]
  /\ storeCount = [c \in Codes |-> 0]
  /\ okCount = [c \in Codes |-> 0]
  /\ seen = [k \in {"never", "redeemed", "expired"} |-> {}]
  /\ users = [i \in UserIds |-> NoUser]
  /\ apikeys = [n \in KeySerials |-> NoUserId]
  /\ stats = [total_users |-> 0, active_users |-> 0]
  /\ nextKey = 1
  /\ today = 0
  /\ rproc = [p \in RProcs |-> IdleR]
  /\ pending = {}
  /\ retired = {}
  /\ tokens = [t \in RegTokens |-> NoUserId]
  /\ sout = NoSout
  /\ tested = {}
  /\ issued = {}
  /\ aout = NoAuthorized
  /\ tout = NoTout

\* ------------------------------------------------- api/oauth/store-token.js
StoreRequests == [method : Methods, authCode : Codes \cup {NoCode},
                  token : TokenInputs]

\* The checks store-token.js makes before it writes; NoResp when all pass.
StoreValidate(req) ==
  IF req.method = "OPTIONS" THEN Json(200, "", "")
  ELSE IF req.method # "POST" THEN Json(405, "Method not allowed", "")
  ELSE IF req.authCode = NoCode \/ ~Truthy(req.token) THEN
    Json(400, "Both authCode and token are required", "")
  ELSE IF ~StartsWith(req.token, "xoxp-") THEN
    Json(400, "Invalid token format - must be a Slack user token starting with xoxp-",
         "")
  ELSE NoResp

StoreToken(req) ==
  LET err == StoreValidate(req) IN
  IF err # NoResp
  THEN /\ out' = Sent("store", NoPre, err)
       /\ UNCHANGED <<now, codeStore, xproc, lastStore, redeemed, storeCount,
                      okCount, seen, regVars, surfVars>>
  ELSE /\ storeCount[req.authCode] < MaxStores
       /\ codeStore' = KvSetex(codeStore, req.authCode, CodeTtl, req.token)
       /\ out' = Sent("store", NoPre,
                      [Json(200, "", "") EXCEPT !.success = TRUE])
       /\ lastStore' = [lastStore EXCEPT ![req.authCode] =
                          [token |-> req.token, at |-> now,
                           prev |-> lastStore[req.authCode].token]]
       /\ redeemed' = [redeemed EXCEPT ![req.authCode] = FALSE]
       /\ storeCount' = [storeCount EXCEPT ![req.authCode] = @ + 1]
       /\ UNCHANGED <<now, xproc, okCount, seen, regVars, surfVars>>

\* ------------------------------------------------------ api/oauth/token.js
\* The handler with kv.del ahead of the checks: a request that names a code
\* consumes it, whatever the answer.
ExchangeGetConsuming(p, req) ==
  /\ xproc[p].pc = "idle"
  /\ LET err == Validate(req) IN
     IF err # NoResp
     THEN /\ out' = Sent("token", NoPre, err)
          /\ codeStore' = IF req.code # NoCode THEN KvDel(codeStore, req.code)
                          ELSE codeStore
          /\ UNCHANGED <<xproc, seen>>
     ELSE LET tok == KvGet(codeStore, req.code)
              pre == PreOf(req.code) IN
          IF ~Truthy(tok)
          THEN /\ out' = Sent("token", pre, InvalidGrant)
               /\ UNCHANGED <<xproc, seen, codeStore>>
          ELSE /\ xproc' = [xproc EXCEPT ![p] =
                             [pc |-> "del", v |-> req.v, code |-> req.code,
                              got |-> tok, pre |-> pre]]
               /\ UNCHANGED <<out, seen, codeStore>>
  /\ UNCHANGED <<now, lastStore, redeemed, storeCount, okCount,
                 regVars, surfVars>>

\* First step of an exchange: the checks, then kv.get; a missing value is
\* answered at once, a found one leaves the request before its kv.del.
ExchangeGet(p, req) ==
  /\ xproc[p].pc = "idle"
  /\ LET err == Validate(req) IN
     IF err # NoResp
     THEN /\ out' = Sent("token", NoPre, err)
          /\ UNCHANGED <<xproc, seen>>
     ELSE LET tok == KvGet(codeStore, req.code)
              pre == PreOf(req.code) IN
          IF ~Truthy(tok)
          THEN /\ out' = Sent("token", pre, InvalidGrant)
               /\ seen' = IF pre.case \in DOMAIN seen
                           THEN [seen EXCEPT ![pre.case] = @ \cup {InvalidGrant}]
                           ELSE seen
               /\ UNCHANGED xproc
          ELSE /\ xproc' = [xproc EXCEPT ![p] =
                             [pc |-> "del", v |-> req.v, code |-> req.code,
                              got |-> tok, pre |-> pre]]
               /\ UNCHANGED <<out, seen>>
  /\ UNCHANGED <<now, codeStore, lastStore, redeemed, storeCount, okCount,
                 regVars, surfVars>>

\* Second step: kv.del, then the 200 response carrying the value read.
ExchangeDel(p) ==
  /\ xproc[p].pc = "del"
  /\ LET x == xproc[p]
         resp == TokenResponse(x.v, x.got) IN
     /\ codeStore' = KvDel(codeStore, x.code)
     /\ xproc' = [xproc EXCEPT ![p] = IdleX]
     /\ out' = Sent("token", x.pre, resp)
     /\ okCount' = [okCount EXCEPT ![x.code] = @ + 1]
     /\ redeemed' = [redeemed EXCEPT ![x.code] = TRUE]
     /\ seen' = IF x.pre.case \in DOMAIN seen
                 THEN [seen EXCEPT ![x.pre.case] = @ \cup {resp}]
                 ELSE seen
  /\ UNCHANGED <<now, lastStore, storeCount, regVars, surfVars>>

Tick ==
  /\ now + TickSeconds <= MaxTime
  /\ now' = now + TickSeconds
  /\ UNCHANGED <<codeStore, xproc, out, lastStore, redeemed, storeCount,
                 okCount, seen, regVars, surfVars>>

\* -------------------------------------------------- api/oauth/authorize.js
\* The checks of /oauth/authorize; 0 when all pass.  Variant 1 is the Claude
\* Web handler, variant 2 the second handler of the file, which does not
\* require client_id.
AuthorizeValidate(v, req) ==
  IF req.method # "GET" THEN 405
  ELSE IF ~req.redirect THEN 400
  ELSE IF v = 1 /\ ~req.client THEN 400
  ELSE 0

\* The code of a redirect is new: never issued and never stored.
FreshCodes == {c \in Codes : c \notin issued /\ storeCount[c] = 0}

\* An authorize that also writes the code it issues to the store.
AuthorizeStoring(v, req) ==
  /\ IF AuthorizeValidate(v, req) # 0
     THEN /\ aout' = Authorized(v, req, AuthorizeValidate(v, req), NoCode)
          /\ UNCHANGED <<issued, codeStore>>
     ELSE \E c \in FreshCodes :
            /\ aout' = Authorized(v, req, 302, c)
            /\ issued' = issued \cup {c}
            /\ codeStore' = KvSetex(codeStore, c, CodeTtl, Token("code", 4, 0))
  /\ UNCHANGED <<now, xproc, out, lastStore, redeemed, storeCount, okCount,
                 seen, regVars, tokens, sout, tested, tout>>

\* GET /oauth/authorize: the checks, then the redirect to the connect page
\* with a newly generated code.  Nothing is stored.
Authorize(v, req) ==
  /\ IF AuthorizeValidate(v, req) # 0
     THEN /\ aout' = Authorized(v, req, AuthorizeValidate(v, req), NoCode)
          /\ UNCHANGED issued
     ELSE \E c \in FreshCodes :
            /\ aout' = Authorized(v, req, 302, c)
            /\ issued' = issued \cup {c}
  /\ UNCHANGED <<oauthVars, regVars, tokens, sout, tested, tout>>

\* Requests handled one at a time.
OAuthNext ==
  \/ \E req \in StoreRequests : StoreToken(req)
  \/ \E req \in Requests : ExchangeGet(1, req)
  \/ ExchangeDel(1)
  \/ Tick

SpecOAuth == Init /\ [][OAuthNext]_vars

\* Requests handled concurrently, a store call at a time.
OAuthConcNext ==
  \/ \E req \in StoreRequests : StoreToken(req)
  \/ \E p \in XProcs, req \in Requests : ExchangeGet(p, req)
  \/ \E p \in XProcs : ExchangeDel(p)
  \/ Tick

SpecOAuthConc == Init /\ [][OAuthConcNext]_vars

\* The whole flow, one request at a time: authorize, store-token, exchange.
OAuthFlowNext ==
  \/ \E v \in Variants, req \in AuthorizeRequests : Authorize(v, req)
  \/ OAuthNext

SpecOAuthFlow == Init /\ [][OAuthFlowNext]_vars

\* ------------------------------------------------------------- lib/auth.js
\* The test of line 118 without its second half.
RecordUsableNoActive(ud) == ud # NoUser

\* getUserByApiKey, line 118: the record read is one to return.
RecordUsable(ud) == ud # NoUser /\ ud.active

\* What a getUserByApiKey(k) run now without interruption returns: the record
\* of user id.
Authenticates(k, id) ==
  /\ IsValidApiKey(k)
  /\ id # NoUserId
  /\ KvGetIndex(k) = id
  /\ RecordUsable(KvGetUser(id))

HeldKeys(id) == {n \in KeySerials : Authenticates(GenerateApiKey(n), id)}

Free(p) == rproc[p].pc \in {"idle", "crashed"}
Goto(p, r) == rproc' = [rproc EXCEPT ![p] = r]
Call(op, id) == [IdleR EXCEPT !.op = op, !.id = id]

\* createUser: the shape check, the two generated values and kv.set user:<id>;
\* r is the caller's state to go on from, rthrow the one it ends in when
\* createUser throws.
CreateUserFrom(p, token, r, rthrow) ==
  IF ~IsValidSlackToken(token)
  THEN /\ Goto(p, rthrow)
       /\ UNCHANGED <<users, nextKey>>
  ELSE /\ FreeIds # {} /\ nextKey <= MaxKeys
       /\ LET ud == NewUser(NextId, GenerateApiKey(nextKey), token) IN
          /\ users' = KvSetUser(ud.id, ud)
          /\ Goto(p, [r EXCEPT !.pc = "create_index", !.id = ud.id,
                               !.ud = ud, !.newKey = ud.apiKey])
       /\ nextKey' = nextKey + 1

CreateUser(p, token) ==
  /\ Free(p)
  /\ CreateUserFrom(p, token, Call("createUser", NoUserId),
                    [Ret("createUser", NoUserId, NoKey) EXCEPT !.threw = TRUE])
  /\ UNCHANGED <<apikeys, stats, today, pending, retired, oauthVars,
                 surfVars>>

\* createUser: kv.set apikey:<apiKey>.
CreateIndex(p) ==
  /\ rproc[p].pc = "create_index"
  /\ apikeys' = KvSetIndex(rproc[p].ud.apiKey, rproc[p].id)
  /\ Goto(p, [rproc[p] EXCEPT !.pc = "create_incr"])
  /\ UNCHANGED <<users, stats, nextKey, today, pending, retired, oauthVars, surfVars>>

\* createUser: kv.incr stats:total_users, and the return.
CreateIncr(p) ==
  /\ rproc[p].pc = "create_incr"
  /\ stats' = [stats EXCEPT !.total_users = @ + 1]
  /\ Goto(p, [Ret(rproc[p].op, rproc[p].id, NoKey) EXCEPT
                !.ok = TRUE, !.newKey = rproc[p].newKey, !.active = TRUE,
                !.cont = rproc[p].cont, !.calls = rproc[p].calls,
                !.status = IF rproc[p].op = "register" THEN 201 ELSE 0,
                !.ud = IF rproc[p].op = "register"
                       THEN TokenOnly(rproc[p].ud.slackToken) ELSE NoUser])
  /\ UNCHANGED <<users, apikeys, nextKey, today, pending, retired, oauthVars, surfVars>>

\* The count the caller's last call returned, when that was a lookup of k.
PrevCount(p, k) ==
  IF rproc[p].op = "getUserByApiKey" /\ rproc[p].ok /\ rproc[p].key = k
  THEN rproc[p].n ELSE 0

LookupRet(k, id, why) == [Ret("getUserByApiKey", id, k) EXCEPT !.why = why]

\* getUserByApiKey: the format check and kv.get apikey:<apiKey>.
GetUserByApiKey(p, k) ==
  /\ Free(p)
  /\ IF ~IsValidApiKey(k)
     THEN Goto(p, LookupRet(k, NoUserId, "malformed"))
     ELSE IF KvGetIndex(k) = NoUserId
     THEN Goto(p, LookupRet(k, NoUserId, "noindex"))
     ELSE Goto(p, [LookupRet(k, KvGetIndex(k), "") EXCEPT
                     !.pc = "lookup_user", !.prev = PrevCount(p, k)])
  /\ UNCHANGED <<users, apikeys, stats, nextKey, today, pending, retired,
                 oauthVars, surfVars>>

\* getUserByApiKey: kv.get user:<id>, the usage update on the copy read, the
\* kv.set that is not awaited, and the return of the copy.
LookupUser(p) ==
  /\ rproc[p].pc = "lookup_user"
  /\ LET ud == KvGetUser(rproc[p].id)
         k == rproc[p].key IN
     IF ~RecordUsable(ud)
     THEN /\ Goto(p, LookupRet(k, rproc[p].id,
                               IF ud = NoUser THEN "norecord" ELSE "inactive"))
          /\ UNCHANGED pending
     ELSE LET used == [ud EXCEPT !.lastUsed = today,
                                 !.totalRequests = @ + 1] IN
          /\ ud.totalRequests < MaxRequests
          /\ used \in pending \/ Cardinality(pending) < MaxPending
          /\ pending' = pending \cup {used}
          /\ Goto(p, [LookupRet(k, ud.id, "found") EXCEPT
                        !.ok = TRUE, !.n = used.totalRequests,
                        !.prev = rproc[p].prev, !.active = used.active])
  /\ UNCHANGED <<users, apikeys, stats, nextKey, today, retired, oauthVars, surfVars>>

\* getUserByApiKey: a kv.get that raises is caught, and null is returned.
LookupRaises(p, k) ==
  /\ \/ Free(p) /\ IsValidApiKey(k)
     \/ rproc[p].pc = "lookup_user" /\ k = rproc[p].key
  /\ Goto(p, LookupRet(k, NoUserId, "raised"))
  /\ UNCHANGED <<users, apikeys, stats, nextKey, today, pending, retired,
                 oauthVars, surfVars>>

\* The kv.set issued by a lookup reaches the store.
UsageWriteLands(w) ==
  /\ w \in pending
  /\ users' = KvSetUser(w.id, w)
  /\ pending' = pending \ {w}
  /\ UNCHANGED <<apikeys, stats, nextKey, today, rproc, retired, oauthVars, surfVars>>

\* The kv.set issued by a lookup fails; the rejection is logged.
UsageWriteFails(w) ==
  /\ w \in pending
  /\ pending' = pending \ {w}
  /\ UNCHANGED <<users, apikeys, stats, nextKey, today, rproc, retired,
                 oauthVars, surfVars>>

\* deactivateUser returns: to its caller, or into the loop of
\* cleanupInactiveUsers, which counts the call and goes on.
CleanupContinue(p, r) ==
  IF r.list = {}
  THEN Goto(p, [Ret("cleanupInactiveUsers", NoUserId, NoKey) EXCEPT
                  !.ok = TRUE, !.n = r.n, !.cutoff = r.cutoff,
                  !.before = r.before])
  ELSE Goto(p, r)

DeactivateReturn(p, r, ok) ==
  IF r.cont = "clean"
  THEN CleanupContinue(p, [r EXCEPT !.pc = "clean_loop", !.list = @ \ {r.id},
                                    !.n = @ + 1, !.ud = NoUser, !.old = NoKey,
                                    !.wasActive = FALSE, !.id = NoUserId,
                                    !.held = {}])
  ELSE Goto(p, [Ret("deactivateUser", r.id, NoKey) EXCEPT
                  !.ok = ok, !.old = r.old, !.wasActive = r.wasActive,
                  !.held = r.held])

\* deactivateUser: kv.get user:<id>; false when there is no record.
DeactivateRead(p, r, id) ==
  LET ud == KvGetUser(id) IN
  IF ud = NoUser
  THEN DeactivateReturn(p, [r EXCEPT !.id = id], FALSE)
  ELSE Goto(p, [r EXCEPT !.pc = "deact_set", !.id = id,
                         !.ud = [ud EXCEPT !.active = FALSE],
                         !.old = ud.apiKey, !.wasActive = ud.active,
                         !.held = HeldKeys(id)])

DeactivateUser(p, id) ==
  /\ Free(p)
  /\ stats.active_users > -MaxDecr
  /\ DeactivateRead(p, Call("deactivateUser", id), id)
  /\ UNCHANGED <<users, apikeys, stats, nextKey, today, pending, retired,
                 oauthVars, surfVars>>

\* deactivateUser: kv.set user:<id> with active = false.
DeactivateSet(p) ==
  /\ rproc[p].pc = "deact_set"
  /\ users' = KvSetUser(rproc[p].id, rproc[p].ud)
  /\ Goto(p, [rproc[p] EXCEPT !.pc = "deact_del"])
  /\ UNCHANGED <<apikeys, stats, nextKey, today, pending, retired, oauthVars, surfVars>>

\* deactivateUser: kv.del apikey:<userData.apiKey>.
DeactivateDel(p) ==
  /\ rproc[p].pc = "deact_del"
  /\ apikeys' = KvDelIndex(rproc[p].ud.apiKey)
  /\ Goto(p, [rproc[p] EXCEPT !.pc = "deact_decr"])
  /\ UNCHANGED <<users, stats, nextKey, today, pending, retired, oauthVars, surfVars>>

\* deactivateUser: kv.decr stats:active_users, and the return of true.
DeactivateDecr(p) ==
  /\ rproc[p].pc = "deact_decr"
  /\ stats' = [stats EXCEPT !.active_users = @ - 1]
  /\ DeactivateReturn(p, rproc[p], TRUE)
  /\ retired' = retired \cup
       {[key |-> GenerateApiKey(n), by |-> "deactivateUser"] :
          n \in rproc[p].held}
  /\ UNCHANGED <<users, apikeys, nextKey, today, pending, oauthVars, surfVars>>

\* reactivateUser: kv.get user:<id>; throws when there is no record.
ReactivateUser(p, id) ==
  /\ Free(p)
  /\ nextKey <= MaxKeys
  /\ LET ud == KvGetUser(id) IN
     IF ud = NoUser
     THEN Goto(p, [Ret("reactivateUser", id, NoKey) EXCEPT !.threw = TRUE])
     ELSE Goto(p, [Call("reactivateUser", id) EXCEPT
                     !.pc = "react_set", !.ud = ud, !.old = ud.apiKey,
                     !.wasActive = ud.active])
  /\ UNCHANGED <<users, apikeys, stats, nextKey, today, pending, retired,
                 oauthVars, surfVars>>

\* reactivateUser: a new key, active = true, kv.set user:<id>.
ReactivateSet(p) ==
  /\ rproc[p].pc = "react_set"
  /\ nextKey <= MaxKeys
  /\ LET ud == [rproc[p].ud EXCEPT !.active = TRUE,
                                   !.apiKey = GenerateApiKey(nextKey)] IN
     /\ users' = KvSetUser(rproc[p].id, ud)
     /\ Goto(p, [rproc[p] EXCEPT !.pc = "react_index", !.ud = ud,
                                 !.newKey = ud.apiKey])
  /\ nextKey' = nextKey + 1
  /\ UNCHANGED <<apikeys, stats, today, pending, retired, oauthVars, surfVars>>

\* reactivateUser: kv.set apikey:<newApiKey>, and the return.
ReactivateIndex(p) ==
  /\ rproc[p].pc = "react_index"
  /\ apikeys' = KvSetIndex(rproc[p].newKey, rproc[p].id)
  /\ Goto(p, [Ret("reactivateUser", rproc[p].id, NoKey) EXCEPT
                !.ok = TRUE, !.newKey = rproc[p].newKey,
                !.old = rproc[p].old, !.wasActive = rproc[p].wasActive,
                !.active = rproc[p].ud.active])
  /\ UNCHANGED <<users, stats, nextKey, today, pending, retired, oauthVars, surfVars>>

\* rotateApiKey: kv.get user:<id>; throws when there is no record.
RotateApiKey(p, id) ==
  /\ Free(p)
  /\ nextKey <= MaxKeys
  /\ LET ud == KvGetUser(id) IN
     IF ud = NoUser
     THEN Goto(p, [Ret("rotateApiKey", id, NoKey) EXCEPT !.threw = TRUE])
     ELSE Goto(p, [Call("rotateApiKey", id) EXCEPT
                     !.pc = "rot_del", !.ud = ud, !.old = ud.apiKey,
                     !.wasActive = ud.active, !.held = HeldKeys(id)])
  /\ UNCHANGED <<users, apikeys, stats, nextKey, today, pending, retired,
                 oauthVars, surfVars>>

\* rotateApiKey without its kv.del.
RotateDelKeeps(p) ==
  /\ rproc[p].pc = "rot_del"
  /\ Goto(p, [rproc[p] EXCEPT !.pc = "rot_set"])
  /\ UNCHANGED <<users, apikeys, stats, nextKey, today, pending, retired,
                 oauthVars, surfVars>>

\* rotateApiKey: kv.del apikey:<userData.apiKey>.
RotateDel(p) ==
  /\ rproc[p].pc = "rot_del"
  /\ apikeys' = KvDelIndex(rproc[p].ud.apiKey)
  /\ Goto(p, [rproc[p] EXCEPT !.pc = "rot_set"])
  /\ UNCHANGED <<users, stats, nextKey, today, pending, retired, oauthVars, surfVars>>

\* rotateApiKey: a new key, kv.set user:<id>.
RotateSet(p) ==
  /\ rproc[p].pc = "rot_set"
  /\ nextKey <= MaxKeys
  /\ LET ud == [rproc[p].ud EXCEPT !.apiKey = GenerateApiKey(nextKey)] IN
     /\ users' = KvSetUser(rproc[p].id, ud)
     /\ Goto(p, [rproc[p] EXCEPT !.pc = "rot_index", !.ud = ud,
                                 !.newKey = ud.apiKey])
  /\ nextKey' = nextKey + 1
  /\ UNCHANGED <<apikeys, stats, today, pending, retired, oauthVars, surfVars>>

\* rotateApiKey: kv.set apikey:<newApiKey>, and the return of the new key.
RotateIndex(p) ==
  /\ rproc[p].pc = "rot_index"
  /\ apikeys' = KvSetIndex(rproc[p].newKey, rproc[p].id)
  /\ Goto(p, [Ret("rotateApiKey", rproc[p].id, NoKey) EXCEPT
                !.ok = TRUE, !.newKey = rproc[p].newKey,
                !.old = rproc[p].old, !.wasActive = rproc[p].wasActive,
                !.held = rproc[p].held])
  /\ retired' = retired \cup
       {[key |-> GenerateApiKey(n), by |-> "rotateApiKey"] :
          n \in rproc[p].held}
  /\ UNCHANGED <<users, stats, nextKey, today, pending, oauthVars, surfVars>>

\* cleanupInactiveUsers: the cutoff date, and kv.scan for user:* (the ids
\* that hold a record).
CleanupDays == 0..MaxDays

CleanupInactiveUsers(p, days, ahead) ==
  /\ Free(p)
  /\ LET list == KvScan(0, ScanCount, ahead, 0).keys IN
     /\ stats.active_users - Cardinality(list) >= -MaxDecr
     /\ CleanupContinue(p, [Call("cleanupInactiveUsers", NoUserId) EXCEPT
                              !.pc = "clean_loop", !.list = list,
                              !.cutoff = today - days, !.cont = "clean",
                              !.before = users])
  /\ UNCHANGED <<users, apikeys, stats, nextKey, today, pending, retired,
                 oauthVars, surfVars>>

\* cleanupInactiveUsers: kv.get of the next key scanned, and the test of the
\* record against the cutoff.
CleanupGet(p) ==
  /\ rproc[p].pc = "clean_loop"
  /\ \E i \in rproc[p].list :
       LET ud == KvGetUser(i) IN
       IF ud # NoUser /\ ud.lastUsed < rproc[p].cutoff /\ ud.active
       THEN Goto(p, [rproc[p] EXCEPT !.pc = "deact_get", !.id = ud.id])
       ELSE CleanupContinue(p, [rproc[p] EXCEPT !.list = @ \ {i}])
  /\ UNCHANGED <<users, apikeys, stats, nextKey, today, pending, retired,
                 oauthVars, surfVars>>

\* cleanupInactiveUsers: the kv.get of the deactivateUser it calls.
CleanupDeactivate(p) ==
  /\ rproc[p].pc = "deact_get"
  /\ DeactivateRead(p, rproc[p], rproc[p].id)
  /\ UNCHANGED <<users, apikeys, stats, nextKey, today, pending, retired,
                 oauthVars, surfVars>>

\* updateUserToken: the shape check and kv.get user:<id>; throws on a token
\* of the wrong shape and when there is no record.
UpdateUserToken(p, id, token) ==
  /\ Free(p)
  /\ LET ud == KvGetUser(id) IN
     IF ~IsValidSlackToken(token) \/ ud = NoUser
     THEN Goto(p, [Ret("updateUserToken", id, NoKey) EXCEPT !.threw = TRUE])
     ELSE Goto(p, [Call("updateUserToken", id) EXCEPT
                     !.pc = "upd_set",
                     !.ud = [ud EXCEPT !.slackToken = token,
                                       !.slackTokenHash = HashToken(token)]])
  /\ UNCHANGED <<users, apikeys, stats, nextKey, today, pending, retired,
                 oauthVars, surfVars>>

\* updateUserToken: kv.set user:<id>, and the return of the record.
UpdateSet(p) ==
  /\ rproc[p].pc = "upd_set"
  /\ users' = KvSetUser(rproc[p].id, rproc[p].ud)
  /\ Goto(p, [Ret("updateUserToken", rproc[p].id, NoKey) EXCEPT
                !.ok = TRUE, !.ud = TokenOnly(rproc[p].ud.slackToken)])
  /\ UNCHANGED <<apikeys, stats, nextKey, today, pending, retired,
                 oauthVars, surfVars>>

\* listUsers returns what it has collected.
ListReturn(p, r) ==
  IF r.list = {}
  THEN Goto(p, [Ret("listUsers", NoUserId, NoKey) EXCEPT
                  !.ok = TRUE, !.users = r.users, !.cursor = r.cursor,
                  !.hasMore = (r.cursor # 0)])
  ELSE Goto(p, r)

\* listUsers: kv.scan from the cursor given.
ListUsers(p, limit, cursor, ahead, behind) ==
  /\ Free(p)
  /\ LET page == KvScan(cursor, limit, ahead, behind) IN
     ListReturn(p, [Call("listUsers", NoUserId) EXCEPT
                      !.pc = "list_get", !.list = page.keys,
                      !.cursor = page.cursor])
  /\ UNCHANGED <<users, apikeys, stats, nextKey, today, pending, retired,
                 oauthVars, surfVars>>

\* listUsers: kv.get of the next key of the page, and the entry pushed.
ListGet(p) ==
  /\ rproc[p].pc = "list_get"
  /\ LET i == CHOOSE i \in rproc[p].list : \A j \in rproc[p].list : i <= j
         ud == KvGetUser(i) IN
     ListReturn(p, [rproc[p] EXCEPT
                      !.list = @ \ {i},
                      !.users = IF ud # NoUser THEN Append(@, Sanitize(ud))
                                ELSE @])
  /\ UNCHANGED <<users, apikeys, stats, nextKey, today, pending, retired,
                 oauthVars, surfVars>>

\* listUsers: a store call that raises is caught, and an empty last page is
\* returned.
ListRaises(p) ==
  /\ Free(p) \/ rproc[p].pc = "list_get"
  /\ Goto(p, [Ret("listUsers", NoUserId, NoKey) EXCEPT
                !.ok = TRUE, !.why = "raised"])
  /\ UNCHANGED <<users, apikeys, stats, nextKey, today, pending, retired,
                 oauthVars, surfVars>>

\* The request running a call ends before the call does; what the call had
\* read and written stays as it is.
Crash(p) ==
  /\ ~Free(p)
  /\ Goto(p, [rproc[p] EXCEPT !.pc = "crashed"])
  /\ UNCHANGED <<users, apikeys, stats, nextKey, today, pending, retired,
                 oauthVars, surfVars>>

NextDay ==
  /\ today < MaxDays
  /\ today' = today + 1
  /\ UNCHANGED <<users, apikeys, stats, nextKey, rproc, pending, retired,
                 oauthVars, surfVars>>

AdminStart(p) ==
  \/ \E t \in RegTokens : CreateUser(p, t)
  \/ \E i \in UserIds : DeactivateUser(p, i)
  \/ \E i \in UserIds : ReactivateUser(p, i)
  \/ \E i \in UserIds : RotateApiKey(p, i)
  \/ \E d \in CleanupDays, ahead \in ScanAheads :
       CleanupInactiveUsers(p, d, ahead)

AdminStep(p) ==
  \/ CreateIndex(p) \/ CreateIncr(p)
  \/ DeactivateSet(p) \/ DeactivateDel(p) \/ DeactivateDecr(p)
  \/ ReactivateSet(p) \/ ReactivateIndex(p)
  \/ RotateDel(p) \/ RotateSet(p) \/ RotateIndex(p)
  \/ CleanupGet(p) \/ CleanupDeactivate(p)

LookupStep(p) ==
  \/ \E k \in LookupKeys : GetUserByApiKey(p, k)
  \/ LookupUser(p)
  \/ \E k \in LookupKeys : LookupRaises(p, k)

Background ==
  \/ \E w \in pending : UsageWriteLands(w)
  \/ \E w \in pending : UsageWriteFails(w)
  \/ NextDay

\* One registry call at a time; the usage write of a lookup lands when it does.
RegistryNext == AdminStart(1) \/ AdminStep(1) \/ LookupStep(1) \/ Background

SpecRegistry == Init /\ [][RegistryNext]_vars

\* A key rotation beside lookups: the user is created, deactivated and
\* rotated by one caller, whose request may end at any await, while a second
\* caller looks keys up.
RotationStart(p) ==
  \/ \E t \in RegTokens : CreateUser(p, t)
  \/ \E i \in UserIds : DeactivateUser(p, i)
  \/ \E i \in UserIds : RotateApiKey(p, i)

RotationStep(p) ==
  \/ CreateIndex(p) \/ CreateIncr(p)
  \/ DeactivateSet(p) \/ DeactivateDel(p) \/ DeactivateDecr(p)
  \/ RotateDel(p) \/ RotateSet(p) \/ RotateIndex(p)

UsageWrite ==
  \/ \E w \in pending : UsageWriteLands(w)
  \/ \E w \in pending : UsageWriteFails(w)

RegistryLookupNext ==
  \/ RotationStart(1) \/ RotationStep(1) \/ Crash(1)
  \/ LookupStep(2) \/ UsageWrite

SpecRegistryLookup == Init /\ [][RegistryLookupNext]_vars

\* --------------------------------------------- registration (POST /register)
\* The registration handlers: "register" is handleRegistration of
\* api/index.js, which calls createUser of lib/auth.js; "register_cfg" is the
\* direct-token variant, whose createUser keeps a token:<slackToken> index.
RegVariants == {"register", "register_cfg"}

RegisterRet(r, status, why) ==
  [Ret("register", r.id, NoKey) EXCEPT
     !.cont = r.cont, !.ud = TokenOnly(r.ud.slackToken), !.calls = r.calls,
     !.status = status, !.why = why, !.ok = (status = 201)]

\* The handler's check of the token, and the call of auth.test.
RegisterRequest(p, v, t) ==
  /\ Free(p)
  /\ LET r == [Call("register", NoUserId) EXCEPT
                 !.cont = v, !.ud = TokenOnly(t)] IN
     IF ~Truthy(t) \/ ~StartsWith(t, "xoxp-")
     THEN Goto(p, RegisterRet(r, 400, "format"))
     ELSE Goto(p, [r EXCEPT !.pc = "reg_test", !.calls = 1])
  /\ UNCHANGED <<users, apikeys, stats, nextKey, today, pending, retired,
                 oauthVars, surfVars>>

\* auth.test has succeeded: createUser, up to its first kv.set.
RegisterProceed(p) ==
  LET r == rproc[p]
      t == r.ud.slackToken IN
  IF r.cont = "register"
  THEN CreateUserFrom(p, t, r, RegisterRet(r, 400, "createUser"))
  ELSE /\ FreeIds # {}
       /\ LET ud == NewUserCfg(NextId, t) IN
          /\ users' = KvSetUser(ud.id, ud)
          /\ Goto(p, [r EXCEPT !.pc = "cfg_index", !.id = ud.id, !.ud = ud])
       /\ UNCHANGED nextKey

\* The registration that does not wait for the outcome of auth.test.
RegisterUntested(p, live) ==
  /\ rproc[p].pc = "reg_test"
  /\ tested' = tested
  /\ RegisterProceed(p)
  /\ UNCHANGED <<apikeys, stats, today, pending, retired, oauthVars, tokens,
                 sout, issued, aout, tout>>

\* auth.test returns: it throws (400) or the handler goes on to createUser.
RegisterTested(p, live) ==
  /\ rproc[p].pc = "reg_test"
  /\ IF live
     THEN /\ tested' = tested \cup {rproc[p].ud.slackToken}
          /\ RegisterProceed(p)
     ELSE /\ tested' = tested
          /\ Goto(p, RegisterRet(rproc[p], 400, "authtest"))
          /\ UNCHANGED <<users, nextKey>>
  /\ UNCHANGED <<apikeys, stats, today, pending, retired, oauthVars, tokens,
                 sout, issued, aout, tout>>

\* The direct-token createUser: kv.set token:<slackToken>, and the 201.
CfgCreateIndex(p) ==
  /\ rproc[p].pc = "cfg_index"
  /\ tokens' = KvSetToken(rproc[p].ud.slackToken, rproc[p].id)
  /\ Goto(p, RegisterRet(rproc[p], 201, ""))
  /\ UNCHANGED <<users, apikeys, stats, nextKey, today, pending, retired,
                 oauthVars, sout, tested, issued, aout, tout>>

\* ------------------------------------------------- the request dispatchers
\* The Authorization header read as an API key or as a Slack token.
AsKey(cred) ==
  IF cred.kind = "key" THEN cred.key
  ELSE IF cred.kind = "token"
  THEN ApiKey(cred.token.pfx, cred.token.len, cred.token.n)
  ELSE NoKey

AsToken(cred) ==
  IF cred.kind = "token" THEN cred.token
  ELSE IF cred.kind = "key"
  THEN Token(cred.key.pfx, cred.key.hexlen + 5, cred.key.n)
  ELSE NoToken

\* The record getUserByApiKey / getUserByToken reads and accepts, run without
\* interruption; NoUser when it returns null.
LookupResult(k) ==
  IF Authenticates(k, KvGetIndex(k)) THEN KvGetUser(KvGetIndex(k)) ELSE NoUser

TokenResult(t) ==
  IF Truthy(t) /\ StartsWith(t, "xoxp-") /\ KvGetToken(t) # NoUserId
     /\ RecordUsable(KvGetUser(KvGetToken(t)))
  THEN KvGetUser(KvGetToken(t)) ELSE NoUser

\* The credential names an active registered user.
Resolves(cred) ==
  \/ cred.kind = "key" /\ LookupResult(cred.key) # NoUser
  \/ cred.kind = "token" /\ TokenResult(cred.token) # NoUser

\* The usage update of a successful lookup, issued and not awaited.
UsageWriteIssued(ud) ==
  LET used == [ud EXCEPT !.lastUsed = today, !.totalRequests = @ + 1] IN
  /\ ud.totalRequests < MaxRequests
  /\ used \in pending \/ Cardinality(pending) < MaxPending
  /\ pending' = pending \cup {used}

\* switch (method): the status answered and the calls made to the platform
\* by a request that passed the gate.
SwitchStatus(d, method) ==
  IF method \in {"initialize", "tools/list", "tools/call"} THEN 200
  ELSE IF d = "express" THEN 500 ELSE 400

SwitchCalls(method) == IF method = "tools/call" THEN 1 ELSE 0

McpFrame == UNCHANGED <<users, apikeys, stats, nextKey, today, rproc, retired,
                        oauthVars, tokens, tested, issued, aout, tout>>

\* api/index.js: authenticateRequest by API key, then the method switch.
McpIndex(method, cred) ==
  /\ LET ud == LookupResult(AsKey(cred)) IN
     IF cred = NoCred \/ ud = NoUser
     THEN /\ sout' = Answer("index", method, cred, Resolves(cred), FALSE,
                            401, 0)
          /\ UNCHANGED pending
     ELSE /\ UsageWriteIssued(ud)
          /\ sout' = Answer("index", method, cred, Resolves(cred), TRUE,
                            SwitchStatus("index", method),
                            SwitchCalls(method))
  /\ McpFrame

\* The direct-token variant: authenticateRequest tests the Slack token against
\* the platform; getUserByToken is for the statistics only.
McpDirect(method, cred, live) ==
  /\ LET t == AsToken(cred) IN
     IF ~Truthy(t) \/ ~StartsWith(t, "xoxp-")
     THEN /\ sout' = Answer("direct", method, cred, Resolves(cred), FALSE,
                            401, 0)
          /\ UNCHANGED pending
     ELSE IF ~live
     THEN /\ sout' = Answer("direct", method, cred, Resolves(cred), FALSE,
                            401, 1)
          /\ UNCHANGED pending
     ELSE /\ IF TokenResult(t) = NoUser THEN UNCHANGED pending
             ELSE UsageWriteIssued(TokenResult(t))
          /\ sout' = Answer("direct", method, cred, Resolves(cred), TRUE,
                            SwitchStatus("direct", method),
                            1 + SwitchCalls(method))
  /\ McpFrame

\* The variant that takes the token from the header or from SLACK_TOKEN.
McpEnv(method, cred, env) ==
  /\ LET t == IF cred = NoCred THEN env ELSE AsToken(cred) IN
     IF ~Truthy(t)
     THEN sout' = Answer("env", method, cred, Resolves(cred), FALSE, 401, 0)
     ELSE sout' = Answer("env", method, cred, Resolves(cred), TRUE,
                         SwitchStatus("env", method), SwitchCalls(method))
  /\ UNCHANGED pending
  /\ McpFrame

\* The express server: POST /message; SlackMCPServer.initialize tests the
\* token, handleMessage throws on an unknown method, and the route answers
\* 500 to whatever is thrown.
McpExpress(method, cred, live) ==
  /\ IF cred = NoCred
     THEN sout' = Answer("express", method, cred, Resolves(cred), FALSE,
                         401, 0)
     ELSE IF ~live
     THEN sout' = Answer("express", method, cred, Resolves(cred), FALSE,
                         500, 1)
     ELSE sout' = Answer("express", method, cred, Resolves(cred), TRUE,
                         SwitchStatus("express", method),
                         1 + SwitchCalls(method))
  /\ UNCHANGED pending
  /\ McpFrame

McpRequest ==
  \/ \E m \in McpMethods, c \in Creds : McpIndex(m, c)
  \/ \E m \in McpMethods, c \in Creds, live \in BOOLEAN : McpDirect(m, c, live)
  \/ \E m \in McpMethods, c \in Creds, e \in EnvTokens : McpEnv(m, c, e)
  \/ \E m \in McpMethods, c \in Creds, live \in BOOLEAN :
       McpExpress(m, c, live)

Registration(p) ==
  \/ \E v \in RegVariants, t \in RegTokens : RegisterRequest(p, v, t)
  \/ \E live \in BOOLEAN : RegisterTested(p, live)
  \/ CreateIndex(p) \/ CreateIncr(p) \/ CfgCreateIndex(p)

Deactivation(p) ==
  \/ \E i \in UserIds : DeactivateUser(p, i)
  \/ DeactivateSet(p) \/ DeactivateDel(p) \/ DeactivateDecr(p)

\* Registrations and deactivations, one call at a time.
RegistrationNext == Registration(1) \/ Deactivation(1)

SpecRegistration == Init /\ [][RegistrationNext]_vars

\* Registration, deactivation and the dispatchers' requests.
SurfaceNext == Registration(1) \/ Deactivation(1) \/ McpRequest \/ UsageWrite

SpecSurface == Init /\ [][SurfaceNext]_vars

\* ------------------------------------------------- concurrent rotations
Rotation(p) ==
  \/ \E i \in UserIds : RotateApiKey(p, i)
  \/ RotateDel(p) \/ RotateSet(p) \/ RotateIndex(p)

\* A user is created, and two callers rotate keys, an await at a time.
RotateConcNext ==
  \/ \E t \in RegTokens : CreateUser(1, t)
  \/ CreateIndex(1) \/ CreateIncr(1)
  \/ \E p \in RProcs : Rotation(p)

SpecRotateConc == Init /\ [][RotateConcNext]_vars

\* ------------------------------------------------------- updateUserToken
TokenUpdate(p) ==
  \/ \E i \in UserIds, t \in UpdateTokens : UpdateUserToken(p, i, t)
  \/ UpdateSet(p)

\* Records are registered and reactivated by one caller while a second
\* updates tokens and rotates keys.
TokensNext ==
  \/ Registration(1)
  \/ (\E i \in UserIds : ReactivateUser(1, i))
  \/ ReactivateSet(1) \/ ReactivateIndex(1)
  \/ TokenUpdate(2)
  \/ (\E i \in UserIds : RotateApiKey(2, i))
  \/ RotateDel(2) \/ RotateSet(2) \/ RotateIndex(2)

SpecTokens == Init /\ [][TokensNext]_vars

\* ------------------------------------------------------------- listUsers
ListingSteps(p) ==
  \/ \E l \in ListLimits, c \in ListCursors, a \in ScanAheads,
        b \in ScanBehinds : ListUsers(p, l, c, a, b)
  \/ ListGet(p)
  \/ ListRaises(p)

\* The records are created, used and deactivated, and listed in between.
ListingNext ==
  \/ \E t \in RegTokens : CreateUser(1, t)
  \/ CreateIndex(1) \/ CreateIncr(1)
  \/ Deactivation(1)
  \/ LookupStep(2) \/ UsageWrite
  \/ ListingSteps(1)

SpecListing == Init /\ [][ListingNext]_vars

\* ------------------------------------------------ tools/call: the steps
ToolFrame == UNCHANGED <<oauthVars, regVars, tokens, sout, tested, issued,
                         aout>>

\* A tools/call the gate of an HTTP handler has admitted.
HandleToolCall(d, req, pf) ==
  /\ tout' = HandleToolCallResponse(d, req, pf)
  /\ ToolFrame

\* POST /message of the express server with a tools/call: initialize tests
\* the token, and the route answers 500 when it throws.
ExpressMessage(req, pf) ==
  /\ tout' = IF Failed(pf.auth)
             THEN ToolResponse("express", req, pf, 500, FALSE, FALSE, <<>>,
                               TRUE)
             ELSE CallToolResponse(req, pf)
  /\ ToolFrame

ToolsNext ==
  \/ \E d \in HttpDispatchers, req \in ToolRequests :
       \E pf \in Platforms(req) : HandleToolCall(d, req, pf)
  \/ \E req \in ToolRequests, auth \in Outcomes \ {"not_allowed_token_type"},
          call \in Outcomes :
       ExpressMessage(req, Platform(auth, call, "ok", <<>>))

SpecTools == Init /\ [][ToolsNext]_vars

\* ------------------------------------------------------------------ claims
IsSuccess(resp) == resp.status = 200 /\ Truthy(resp.access_token)

\* C1: storeToken(code, T) followed by a valid exchange of the code returns
\* access_token = T, and an exchange of the same code after that success, with
\* no storeToken in between, fails with invalid_grant.
C1_RoundTrip ==
  out.h = "token" =>
    /\ out.pre.case = "live" =>
         IsSuccess(out.resp) /\ out.resp.access_token = out.pre.token
    /\ out.pre.case = "redeemed" => out.resp = InvalidGrant

C1_Witness ==
  /\ out.h = "token" /\ out.pre.case = "redeemed" /\ out.resp = InvalidGrant
  /\ \E c \in Codes : okCount[c] = 1 /\ storeCount[c] = 1

\* C2: for one storeToken write of a code, at most one exchange request
\* returns a success response, however the requests interleave.
C2_AtMostOneSuccessPerWrite ==
  \A c \in Codes : okCount[c] <= storeCount[c]

\* C7: exchange on a never-stored code and exchange on an already-redeemed
\* code give the identical response: status 400, invalid_grant, one description.
C7_SameFailure ==
  /\ Cardinality(seen["never"] \cup seen["redeemed"]) <= 1
  /\ \A r \in seen["never"] \cup seen["redeemed"] :
       r.status = 400 /\ r.error = "invalid_grant"

C7_Witness == seen["never"] # {} /\ seen["redeemed"] # {}

\* C8: a code not redeemed within CodeTtl seconds of its most recent
\* storeToken is answered as a never-stored code is, with invalid_grant; a
\* code stored again is redeemable until CodeTtl seconds after that write.
C8_Expiry ==
  /\ Cardinality(seen["never"] \cup seen["expired"]) <= 1
  /\ \A r \in seen["expired"] : r = InvalidGrant
  /\ out.h = "token" /\ out.pre.case = "live" => IsSuccess(out.resp)

C8_Witness ==
  /\ seen["expired"] # {} /\ seen["never"] # {}
  /\ out.h = "token" /\ out.pre.case = "expired" /\ out.resp = InvalidGrant
  /\ \E c \in Codes : storeCount[c] > 0 /\ now >= lastStore[c].at + CodeTtl

\* ------------------------------------------------------- claims: lib/auth.js
IndexEntries(id) == {n \in KeySerials : apikeys[n] = id}
RetiredBy(op) == {r.key : r \in {x \in retired : x.by = op}}
AuthenticatesAny(k) == \E i \in UserIds : Authenticates(k, i)
Returned(p, op) == rproc[p].pc = "idle" /\ rproc[p].op = op /\ rproc[p].ok

\* C3: whenever no registry call is in progress and no lookup has written to
\* a record, every active record has exactly one index entry pointing to its
\* id and every inactive record has none.
C3_IndexInvariant ==
  (/\ \A p \in RProcs : rproc[p].pc = "idle"
   /\ pending = {}
   /\ \A i \in UserIds : users[i].totalRequests = 0)
  => \A i \in UserIds :
       users[i] # NoUser =>
         Cardinality(IndexEntries(i)) = IF users[i].active THEN 1 ELSE 0

\* C4: a key that authenticated as the user when a rotateApiKey that has
\* returned read the record never authenticates again, and once rotateApiKey
\* has returned K', getUserByApiKey(K') returns the user's record.
C4_RotateSwitchesKey ==
  /\ \A k \in RetiredBy("rotateApiKey") : ~AuthenticatesAny(k)
  /\ Returned(1, "rotateApiKey") =>
       Authenticates(rproc[1].newKey, rproc[1].id)

\* C5: a key that authenticated as the user when a deactivateUser that has
\* returned true read the record never authenticates again, and once a
\* reactivateUser has returned K2, K2 is none of those keys and
\* getUserByApiKey(K2) returns the record, active.
C5_DeactivateReactivate ==
  /\ \A k \in RetiredBy("deactivateUser") : ~AuthenticatesAny(k)
  /\ Returned(1, "reactivateUser") =>
       /\ rproc[1].newKey \notin RetiredBy("deactivateUser")
       /\ Authenticates(rproc[1].newKey, rproc[1].id)
       /\ KvGetUser(rproc[1].id).active

\* The rotation caller 1 began last, at any of its awaits, ended by the end
\* of its request, or returned; and what a lookup run now makes of its keys.
InRotation == rproc[1].op = "rotateApiKey" /\ ~rproc[1].threw
OldAuthenticates == Authenticates(rproc[1].old, rproc[1].id)
NewAuthenticates ==
  rproc[1].newKey # NoKey /\ Authenticates(rproc[1].newKey, rproc[1].id)

\* C6 (as amended): at every step of a rotateApiKey, and after its request
\* ends at any step, the key the record held when rotateApiKey read it and the
\* new key never both authenticate as the user.
C6_NeverBothKeys == InRotation => ~(OldAuthenticates /\ NewAuthenticates)

\* C6 (as stated): during and after the rotation of a user whose key
\* authenticated when it began, exactly one of the old and the new key
\* authenticates.
C6_Atomic ==
  (InRotation /\ rproc[1].old.n \in rproc[1].held) =>
    /\ ~(OldAuthenticates /\ NewAuthenticates)
    /\ OldAuthenticates \/ NewAuthenticates

C6_Witness ==
  /\ InRotation /\ rproc[1].pc = "crashed" /\ rproc[1].newKey # NoKey
  /\ rproc[1].old.n \in rproc[1].held
  /\ ~OldAuthenticates /\ ~NewAuthenticates
  /\ rproc[2].pc = "idle" /\ rproc[2].op = "getUserByApiKey"
  /\ rproc[2].key = rproc[1].old /\ rproc[2].why = "noindex"

\* C9: every successful lookup returns an active record, and a count exactly
\* 1 greater than the one the caller's previous lookup of that key returned.
C9_CountsByOne ==
  \A p \in RProcs :
    Returned(p, "getUserByApiKey") =>
      /\ rproc[p].active
      /\ rproc[p].prev > 0 => rproc[p].n = rproc[p].prev + 1

\* A step of a getUserByApiKey of caller p taken in one of the failing cases:
\* a malformed key or no index entry (at the first read), no record or an
\* inactive record (at the second read), or a read that raises.
LookupActs(p) == rproc'[p] # rproc[p] /\ rproc'[p].op = "getUserByApiKey"
LookupFails(p) ==
  /\ LookupActs(p)
  /\ \/ /\ Free(p)
        /\ \/ ~IsValidApiKey(rproc'[p].key)
           \/ KvGetIndex(rproc'[p].key) = NoUserId
     \/ /\ rproc[p].pc = "lookup_user"
        /\ \/ KvGetUser(rproc[p].id) = NoUser
           \/ ~KvGetUser(rproc[p].id).active
     \/ rproc'[p].why = "raised"

\* C10: a getUserByApiKey step taken in a failing case returns null, does not
\* throw, and writes nothing to the store, at once or later.
C10_FailsClosed ==
  [][\A p \in RProcs :
       LookupFails(p) =>
         /\ rproc'[p].pc = "idle" /\ ~rproc'[p].ok /\ ~rproc'[p].threw
         /\ UNCHANGED <<users, apikeys, stats, pending>>]_vars

C10_Witness ==
  \E p \in RProcs :
    /\ rproc[p].pc = "idle" /\ rproc[p].op = "getUserByApiKey"
    /\ rproc[p].why = "inactive" /\ ~rproc[p].ok /\ ~rproc[p].threw
    /\ ~KvGetUser(rproc[p].id).active

\* ------------------------------------- claims: registration and dispatchers
\* C11: a tool-surface request whose credential is absent or does not resolve
\* to an active registered user is answered 401 and makes no call to the
\* platform, in every dispatcher.
C11_Gate ==
  (sout.d # "" /\ ~sout.resolved) => sout.status = 401 /\ sout.calls = 0

\* Nothing is stored about users.
StoreEmpty ==
  /\ \A i \in UserIds : users[i] = NoUser
  /\ \A n \in KeySerials : apikeys[n] = NoUserId
  /\ \A t \in RegTokens : tokens[t] = NoUserId
  /\ stats.total_users = 0

\* C12: in the registration path every user record is of a token auth.test
\* has accepted and nothing is stored before a token was accepted; and the
\* step in which auth.test fails answers 400 and writes no store key.
C12_WritesAfterLiveTest ==
  /\ [](/\ tested = {} => StoreEmpty
        /\ \A i \in UserIds :
             users[i] # NoUser => users[i].slackToken \in tested)
  /\ [][(/\ rproc[1].pc = "reg_test"
         /\ rproc'[1].pc = "idle"
         /\ rproc'[1].why = "authtest")
        => /\ rproc'[1].status = 400
           /\ UNCHANGED <<users, apikeys, tokens, stats>>]_vars

C12_Witness ==
  /\ rproc[1].pc = "idle" /\ rproc[1].op = "register"
  /\ rproc[1].status = 201
  /\ rproc[1].ud.slackToken \in tested
  /\ \E i \in UserIds : users[i].slackToken = rproc[1].ud.slackToken

\* The token lacks the user-token prefix or the minimum length.
ShapeFails(t) == ~(t.pfx = "xoxp-" /\ t.len > MinTokenLen)

\* C13: a registration whose token fails the shape check is answered 400
\* without a call to the platform.
C13_ShapeRejectedFirst ==
  (/\ rproc[1].pc = "idle" /\ rproc[1].op = "register"
   /\ ShapeFails(rproc[1].ud.slackToken))
  => rproc[1].status = 400 /\ rproc[1].calls = 0

\* C14: createUser called with a token that fails the shape check throws and
\* leaves user records, index entries and the counters as they were.
C14_CreateUserRejects ==
  [][\A t \in RegTokens :
       (CreateUser(1, t) /\ ShapeFails(t))
       => /\ rproc'[1].pc = "idle" /\ rproc'[1].threw /\ ~rproc'[1].ok
          /\ UNCHANGED <<users, apikeys, stats, tokens>>]_vars

C14_Witness ==
  /\ rproc[1].pc = "idle" /\ rproc[1].op = "createUser" /\ rproc[1].threw
  /\ StoreEmpty

\* C20: an authenticated request with a method other than initialize,
\* tools/list and tools/call is answered with a 4xx status, in every
\* dispatcher.
C20_UnknownMethod ==
  (/\ sout.authed
   /\ sout.method \notin {"initialize", "tools/list", "tools/call"})
  => sout.status \in 400..499

\* ------------------------------------------- claims: the OAuth handlers, II
\* C15: the value held under a code is always a token that passes the shape
\* check (prefix and minimum length), store-token having answered 400 and
\* written nothing for any other.
C15_StoredShapeValid ==
  \A c \in Codes :
    codeStore[c] # NoEntry => ~ShapeFails(codeStore[c].value)

\* C16: an exchange that reads a code written more than once, unexpired and
\* not redeemed since its last write, returns the token written last, and not
\* the one that write replaced.
C16_LastWriteWins ==
  (out.h = "token" /\ out.pre.case = "live" /\ out.pre.prev # NoToken) =>
    /\ IsSuccess(out.resp)
    /\ out.resp.access_token = out.pre.token
    /\ out.pre.prev # out.pre.token =>
         out.resp.access_token # out.pre.prev

C16_Witness ==
  /\ out.h = "token" /\ out.pre.case = "live" /\ IsSuccess(out.resp)
  /\ out.pre.prev # NoToken /\ out.pre.prev # out.pre.token
  /\ \E c \in Codes : storeCount[c] = 2 /\ okCount[c] = 1

\* C17: /oauth/authorize writes nothing to the store; a code it issued holds
\* no value until a store-token for it has been made, and an exchange of such
\* a code is answered invalid_grant.
C17_AuthorizeStoresNothing ==
  /\ [](/\ \A c \in issued :
             storeCount[c] = 0 => KvGet(codeStore, c) = NoToken
        /\ (out.h = "token" /\ out.pre.issued /\ out.pre.case = "never")
           => out.resp = InvalidGrant)
  /\ [][aout' # aout => UNCHANGED codeStore]_vars

C17_Witness ==
  /\ out.h = "token" /\ out.pre.issued /\ out.pre.case = "never"
  /\ out.resp = InvalidGrant
  /\ aout.status = 302 /\ aout.code \in issued

\* C18: a GET /oauth/authorize is answered 302 with a code when redirect_uri
\* and client_id are both present, and 400 with no code otherwise.
C18_AuthorizeParameters ==
  aout.method = "GET" =>
    IF aout.redirect /\ aout.client
    THEN aout.status = 302 /\ aout.code # NoCode
    ELSE aout.status = 400 /\ aout.code = NoCode

\* The first step of the exchange of req by caller 1 answers 400 with error e
\* and ends the request; or finds the stored value and goes on to delete it
\* and answer 200.
AnswersError(e) ==
  /\ out'.h = "token" /\ out'.resp.status = 400 /\ out'.resp.error = e
  /\ ~IsSuccess(out'.resp)
  /\ xproc'[1].pc = "idle"
GoesOn == xproc'[1].pc = "del" /\ out' = out

\* C19 (as amended): a POST to /oauth/token is answered by the first failing
\* check in the order grant type, presence of the code, client_id (the Claude
\* Web variant only), stored value; it succeeds only when all pass.
C19_CheckOrder ==
  [][\A req \in Requests :
       (ExchangeGet(1, req) /\ req.method = "POST") =>
         IF req.grant_type # "authorization_code"
         THEN AnswersError("unsupported_grant_type")
         ELSE IF req.code = NoCode THEN AnswersError("invalid_request")
         ELSE IF req.v = 2 /\ req.client_id # WebClientId
         THEN AnswersError("invalid_client")
         ELSE IF ~Truthy(KvGet(codeStore, req.code))
         THEN AnswersError("invalid_grant")
         ELSE GoesOn]_vars

\* C19 (as stated): the same without the check of client_id.
C19_CheckOrderStated ==
  [][\A req \in Requests :
       (ExchangeGet(1, req) /\ req.method = "POST") =>
         IF req.grant_type # "authorization_code"
         THEN AnswersError("unsupported_grant_type")
         ELSE IF req.code = NoCode THEN AnswersError("invalid_request")
         ELSE IF ~Truthy(KvGet(codeStore, req.code))
         THEN AnswersError("invalid_grant")
         ELSE GoesOn]_vars

C19_Witness ==
  /\ out.h = "token" /\ out.resp.status = 400
  /\ out.resp.error = "unsupported_grant_type"
  /\ xproc[1].pc = "idle"

\* ------------------------------------------------------ claims: tools/call
\* C21: a tools/call naming a known tool, during which a call to the platform
\* fails, is answered with status 200 and an envelope with isError = true,
\* never with a 4xx or 5xx.
C21_ErrorsEnveloped ==
  (tout.d # "" /\ KnownTool(tout.d, tout.req.tool) /\ tout.failed) =>
    tout.status = 200 /\ tout.isError

\* C22: a search whose search.messages call fails with not_allowed_token_type
\* is answered with a non-error envelope built by the fallback, holding at
\* most limit messages, each from the history of one of the first
\* FallbackChannels channels listed that the user is a member of and each
\* containing, whatever the case, a whitespace-separated term of the query
\* longer than two characters; a search failing otherwise is not answered by
\* the fallback.
C22_FallbackSearch ==
  (tout.d # "" /\ tout.req.tool = "slack_search_messages"
     /\ ~Failed(tout.pf.auth) /\ Failed(tout.pf.call)) =>
    IF tout.pf.call = "not_allowed_token_type"
    THEN /\ tout.status = 200 /\ ~tout.isError /\ tout.fallback
         /\ Len(tout.results) <= LimitOf(tout.req.limit)
         /\ \A j \in 1..Len(tout.results) :
              LET r == tout.results[j]
                  pieces == SplitWhitespace(tout.req.query) IN
              /\ r.channel <= FallbackChannels
              /\ tout.pf.listing[r.channel].is_member
              /\ \E m \in 1..Len(tout.pf.listing[r.channel].history) :
                   tout.pf.listing[r.channel].history[m] = r.text
              /\ \E t \in 1..Len(pieces) :
                   /\ Len(pieces[t]) > 2
                   /\ Includes(ToLowerCase(r.text), ToLowerCase(pieces[t]))
    ELSE ~tout.fallback

\* ------------------------------------------------- claims: lib/auth.js (2)
\* The records cleanupInactiveUsers is to deactivate: those that were active
\* and last used before the cutoff when it scanned.
CleanupDue(p) ==
  {i \in UserIds :
     /\ rproc[p].before[i] # NoUser
     /\ rproc[p].before[i].active
     /\ rproc[p].before[i].lastUsed < rproc[p].cutoff}

\* C23: when cleanupInactiveUsers(d) has returned, every record that was
\* active and last used before the cutoff is inactive, no other record's
\* active flag has changed, and the count returned is the number of records
\* deactivated.
C23_CleanupDeactivatesDue ==
  Returned(1, "cleanupInactiveUsers") =>
    /\ \A i \in CleanupDue(1) : ~users[i].active
    /\ \A i \in UserIds \ CleanupDue(1) :
         users[i].active = rproc[1].before[i].active
    /\ rproc[1].n = Cardinality(CleanupDue(1))

\* C24: every entry listUsers returns has none of the fields apiKey,
\* slackToken and slackTokenHash, and is the entry of a stored record; and
\* hasMore is true exactly when the cursor returned is not 0.
CredentialFields == {"apiKey", "slackToken", "slackTokenHash"}
C24_ListSanitized ==
  Returned(1, "listUsers") =>
    /\ \A j \in 1..Len(rproc[1].users) :
         /\ DOMAIN rproc[1].users[j] \cap CredentialFields = {}
         /\ KvGetUser(rproc[1].users[j].id) # NoUser
    /\ rproc[1].hasMore <=> rproc[1].cursor # 0

C24_Witness ==
  /\ Returned(1, "listUsers") /\ Len(rproc[1].users) = 1
  /\ rproc[1].hasMore
  /\ KvGetUser(rproc[1].users[1].id).apiKey # NoKey
  /\ KvGetUser(rproc[1].users[1].id).totalRequests > 0

\* C25: every stored user record holds the hash of the token it holds.
C25_HashMatchesToken ==
  \A i \in UserIds :
    users[i] # NoUser => users[i].slackTokenHash = HashToken(users[i].slackToken)

\* The createUser of caller 1 ended after its kv.set of the record and
\* before its kv.set of the index entry, and caller 1 has made no call since.
Orphaned ==
  /\ rproc[1].op = "createUser" /\ rproc[1].pc = "crashed"
  /\ rproc[1].id # NoUserId /\ users[rproc[1].id] # NoUser
  /\ apikeys[rproc[1].newKey.n] # rproc[1].id

DeactivateReturnedTrue == stats.active_users < 0

\* C27: once a deactivateUser has returned true and while no reactivateUser
\* is called, the stored record is inactive and no key authenticates as it.
C27_DeactivatedStaysOut ==
  DeactivateReturnedTrue =>
    \A i \in UserIds :
      users[i] # NoUser =>
        /\ ~users[i].active
        /\ \A k \in LookupKeys : ~Authenticates(k, i)

\* C28: when rotateApiKey(id) calls of two callers have both returned,
\* exactly one key authenticates as id, and it is the key in the record's
\* apiKey field.
C28_OneKeyAfterRotations ==
  (/\ Returned(1, "rotateApiKey") /\ Returned(2, "rotateApiKey")
   /\ rproc[1].id = rproc[2].id) =>
    /\ Cardinality(HeldKeys(rproc[1].id)) = 1
    /\ Authenticates(users[rproc[1].id].apiKey, rproc[1].id)

\* ------------------------------------------------ claims: failed exchanges
ExchangeErrors ==
  {"unsupported_grant_type", "invalid_request", "invalid_client",
   "invalid_grant"}
EndsInError ==
  /\ out' # out /\ out'.h = "token"
  /\ out'.resp.status # 200 /\ out'.resp.error \in ExchangeErrors
Redeemable(store, req) ==
  /\ Validate(req) = NoResp
  /\ Truthy(KvGet(store, req.code))
  /\ KvGet(store, req.code) = lastStore[req.code].token

\* C29: an exchange request answered with unsupported_grant_type,
\* invalid_request, invalid_client or invalid_grant leaves every
\* oauth_code:<code> entry as it was, and a code that a valid exchange would
\* have redeemed before the failed request is redeemed by it after, with the
\* token last stored.
C29_FailedExchangeKeepsCodes ==
  [][EndsInError =>
       /\ codeStore' = codeStore
       /\ \A req \in Requests :
            (req.code # NoCode /\ Validate(req) = NoResp
               /\ Truthy(KvGet(codeStore, req.code)))
              => Redeemable(codeStore', req)]_vars

C29_Witness ==
  /\ out.h = "token" /\ out.resp.status = 400
  /\ out.resp.error = "invalid_client"
  /\ \A c \in Codes :
       /\ Truthy(KvGet(codeStore, c)) /\ storeCount[c] = 1 /\ okCount[c] = 0
       /\ codeStore[c].value = lastStore[c].token
  /\ \A p \in XProcs : xproc[p].pc = "idle"

\* ------------------------------------------------------- claims: the stats
\* C30: when every registry operation called has completed, stats:active_users
\* is not negative and equals the number of records with active = true, and
\* stats:total_users equals the number of records created.
C30_CountersMatchRecords ==
  (\A p \in RProcs : rproc[p].pc = "idle") /\ pending = {} =>
    /\ stats.active_users >= 0
    /\ stats.active_users =
         Cardinality({i \in UserIds : users[i] # NoUser /\ users[i].active})
    /\ stats.total_users = Cardinality({i \in UserIds : users[i] # NoUser})

====
